---- MODULE Spec2Model ----
(***************************************************************************)
(* The schema compiler of jsonld-kit (the generator script): buildGraph    *)
(* over an RDF quad store, topoSortClasses, toTsIdent, rangeToTs/propToTs, *)
(* collectAllPropsForClass and generateTs.                                 *)
(*                                                                         *)
(* Strings of the program are sequences of one-character strings, so that  *)
(* the character-level functions (the sanitizer's regular expressions, the *)
(* default code-unit order of Array.prototype.sort) are computed and not   *)
(* assumed.  Emitted text is a TLA+ string built with \o.                  *)
(***************************************************************************)
EXTENDS Integers, Sequences, FiniteSets, TLC

VARIABLES
    store,              \* the N3 store: its quads, in the store's iteration order
    classes,            \* buildGraph: Map<string, ClassDef>, in insertion order
    props,              \* buildGraph: Map<string, PropDef>, in insertion order
    names,              \* topoSortClasses: the sorted keys
    indeg,              \* topoSortClasses: Map name -> in-degree
    children,           \* topoSortClasses: Map name -> Set (insertion ordered)
    q,                  \* topoSortClasses: the queue
    out,                \* topoSortClasses: the result being built
    sortedSchemaNames,  \* generateTs: the value topoSortClasses returned
    classIdentByName,   \* generateTs: Map schema name -> TS identifier
    idx,                \* generateTs: position of the emit loop (1-based)
    allProps,           \* collectAllPropsForClass: its Set out
    seen,               \* collectAllPropsForClass: its Set seen
    stack,              \* collectAllPropsForClass: the frames of walk
    blocks,             \* generateTs: the interface blocks pushed so far
    text,               \* generateTs: the returned text
    prev,               \* the result of an earlier run over the same quads
    arg,                \* argument of a function applied on its own
    ret,                \* its result
    ret2,               \* the result of applying it to its own result
    pc                  \* position of the program

vars == <<store, classes, props, names, indeg, children, q, out,
          sortedSchemaNames, classIdentByName, idx, allProps, seen, stack,
          blocks, text, prev, arg, ret, ret2, pc>>

storeVars == <<store>>
graphVars == <<classes, props>>
topoVars  == <<names, indeg, children, q, out>>
walkVars  == <<allProps, seen, stack>>
genVars   == <<sortedSchemaNames, classIdentByName, idx, blocks, text>>
unitVars  == <<arg, ret, ret2>>

(***************************************************************************)
(* Characters and strings                                                  *)
(***************************************************************************)

\* The printable ASCII characters in code-unit order, U+0020 .. U+007E.  The
\* grave accent cannot be written in a TLA+ string: "U+0060" holds its place,
\* so that every other character keeps its code unit.
Ascii == <<
    " ", "!", "\"", "#", "$", "%", "&", "'", "(", ")", "*", "+", ",", "-",
    ".", "/", "0", "1", "2", "3", "4", "5", "6", "7", "8", "9", ":", ";",
    "<", "=", ">", "?", "@", "A", "B", "C", "D", "E", "F", "G", "H", "I",
    "J", "K", "L", "M", "N", "O", "P", "Q", "R", "S", "T", "U", "V", "W",
    "X", "Y", "Z", "[", "\\", "]", "^", "_", "U+0060", "a", "b", "c", "d", "e",
    "f", "g", "h", "i", "j", "k", "l", "m", "n", "o", "p", "q", "r", "s",
    "t", "u", "v", "w", "x", "y", "z", "{", "|", "}", "~"
    >>

Chars == {Ascii[i] : i \in 1..Len(Ascii)}

\* The UTF-16 code unit of a character: what the default sort compares and
\* what the character classes of the regular expressions range over.
CodeUnit == [c \in Chars |-> 31 + (CHOOSE i \in 1..Len(Ascii) : Ascii[i] = c)]

IsDigit(c)  == CodeUnit[c] >= CodeUnit["0"] /\ CodeUnit[c] <= CodeUnit["9"]
IsUpper(c)  == CodeUnit[c] >= CodeUnit["A"] /\ CodeUnit[c] <= CodeUnit["Z"]
IsLower(c)  == CodeUnit[c] >= CodeUnit["a"] /\ CodeUnit[c] <= CodeUnit["z"]

\* [A-Za-z0-9_$]
IsIdentChar(c) == IsUpper(c) \/ IsLower(c) \/ IsDigit(c) \/ c = "_" \/ c = "$"

\* [A-Za-z_$]
IsIdentStart(c) == IsUpper(c) \/ IsLower(c) \/ c = "_" \/ c = "$"

\* The absent value: null / undefined.  No string of the program equals it.
Null == <<"<null>">>

\* JavaScript truthiness of a string-or-null value.
Truthy(v) == v # Null /\ v # <<>>

\* F(v) with v evaluated once, before F uses it: an assignment to a local.
Eager(v, F(_)) == CHOOSE r \in {F(x) : x \in {v}} : TRUE

\* The characters of s from the k-th on, as a TLA+ string.
RECURSIVE StrFrom(_, _)
StrFrom(s, k) == IF k > Len(s) THEN "" ELSE s[k] \o StrFrom(s, k + 1)

\* A program string as a TLA+ string.
Str(s) == Eager(s, LAMBDA v : StrFrom(v, 1))

\* a < b in the order of the default sort: by UTF-16 code units.
StrLess(a, b) ==
    \E i \in 1..Len(b) :
        /\ \A j \in 1..(i - 1) : j <= Len(a) /\ a[j] = b[j]
        /\ (i > Len(a) \/ CodeUnit[a[i]] < CodeUnit[b[i]])

\* Array.prototype.sort() with the default comparison (stable).
RECURSIVE InsertSorted(_, _)
InsertSorted(x, s) ==
    IF s = <<>> THEN <<x>>
    ELSE IF StrLess(x, s[1]) THEN <<x>> \o s
    ELSE <<s[1]>> \o InsertSorted(x, Tail(s))

RECURSIVE Sort(_)
Sort(s) ==
    IF s = <<>> THEN <<>>
    ELSE Eager(Sort(SubSeq(s, 1, Len(s) - 1)), LAMBDA init : InsertSorted(s[Len(s)], init))

Range(s) == {s[i] : i \in 1..Len(s)}

\* Array.prototype.includes
Includes(s, x) == \E i \in 1..Len(s) : s[i] = x

\* Array.from(new Set(s)): the first occurrence of each element, in order.
RECURSIVE Dedup(_)
Dedup(s) ==
    IF s = <<>> THEN <<>>
    ELSE Eager(Dedup(SubSeq(s, 1, Len(s) - 1)),
               LAMBDA init : IF Includes(init, s[Len(s)]) THEN init
                             ELSE Append(init, s[Len(s)]))

\* Array.from(set) of a Set whose insertion order nothing observes.
RECURSIVE SetToSeq(_)
SetToSeq(S) ==
    IF S = {} THEN <<>>
    ELSE LET x == CHOOSE y \in S : TRUE IN <<x>> \o SetToSeq(S \ {x})

\* The elements of s from the k-th on, joined.
RECURSIVE JoinFrom(_, _, _)
JoinFrom(s, k, sep) ==
    IF k > Len(s) THEN ""
    ELSE IF k = Len(s) THEN s[k]
    ELSE s[k] \o sep \o JoinFrom(s, k + 1, sep)

\* Array.prototype.join over TLA+ strings.
Join(s, sep) == Eager(s, LAMBDA v : JoinFrom(v, 1, sep))

\* JSON.stringify of a string without quotes, backslashes or control characters.
JsonString(s) == "\"" \o Str(s) \o "\""

(***************************************************************************)
(* Identifier sanitizer                                                    *)
(***************************************************************************)

TS_RESERVED == {
    <<"b","r","e","a","k">>, <<"c","a","s","e">>, <<"c","a","t","c","h">>,
    <<"c","l","a","s","s">>, <<"c","o","n","s","t">>,
    <<"c","o","n","t","i","n","u","e">>, <<"d","e","b","u","g","g","e","r">>,
    <<"d","e","f","a","u","l","t">>, <<"d","e","l","e","t","e">>,
    <<"d","o">>, <<"e","l","s","e">>, <<"e","n","u","m">>,
    <<"e","x","p","o","r","t">>, <<"e","x","t","e","n","d","s">>,
    <<"f","a","l","s","e">>, <<"f","i","n","a","l","l","y">>,
    <<"f","o","r">>, <<"f","u","n","c","t","i","o","n">>, <<"i","f">>,
    <<"i","m","p","o","r","t">>, <<"i","n">>,
    <<"i","n","s","t","a","n","c","e","o","f">>, <<"n","e","w">>,
    <<"n","u","l","l">>, <<"r","e","t","u","r","n">>,
    <<"s","u","p","e","r">>, <<"s","w","i","t","c","h">>,
    <<"t","h","i","s">>, <<"t","h","r","o","w">>, <<"t","r","u","e">>,
    <<"t","r","y">>, <<"t","y","p","e","o","f">>, <<"v","a","r">>,
    <<"v","o","i","d">>, <<"w","h","i","l","e">>, <<"w","i","t","h">>,
    <<"a","s">>, <<"i","m","p","l","e","m","e","n","t","s">>,
    <<"i","n","t","e","r","f","a","c","e">>, <<"l","e","t">>,
    <<"p","a","c","k","a","g","e">>, <<"p","r","i","v","a","t","e">>,
    <<"p","r","o","t","e","c","t","e","d">>, <<"p","u","b","l","i","c">>,
    <<"s","t","a","t","i","c">>, <<"y","i","e","l","d">>, <<"a","n","y">>,
    <<"b","o","o","l","e","a","n">>, <<"n","u","m","b","e","r">>,
    <<"s","t","r","i","n","g">>, <<"s","y","m","b","o","l">>,
    <<"t","y","p","e">>, <<"u","n","k","n","o","w","n">>,
    <<"n","e","v","e","r">>, <<"o","b","j","e","c","t">>,
    <<"r","e","a","d","o","n","l","y">>, <<"k","e","y","o","f">>,
    <<"d","e","c","l","a","r","e">>, <<"a","b","s","t","r","a","c","t">>,
    <<"n","a","m","e","s","p","a","c","e">>, <<"m","o","d","u","l","e">>,
    <<"g","l","o","b","a","l">>, <<"r","e","q","u","i","r","e">>
    }

\* schemaName.replace(/[^A-Za-z0-9_$]/g, "_")
ReplaceInvalid(s) == [i \in 1..Len(s) |-> IF IsIdentChar(s[i]) THEN s[i] ELSE "_"]

\* if (/^[0-9]/.test(out)) out = `_${out}`
PrefixDigit(o) == IF o # <<>> /\ IsDigit(o[1]) THEN <<"_">> \o o ELSE o

\* if (!/^[A-Za-z_$]/.test(out)) out = `_${out}`
PrefixNonStart(o) == IF ~(o # <<>> /\ IsIdentStart(o[1])) THEN <<"_">> \o o ELSE o

\* if (TS_RESERVED.has(out)) out = `${out}_`
SuffixReserved(o) == IF o \in TS_RESERVED THEN o \o <<"_">> ELSE o

\* A sanitizer without the reserved-word step.
toTsIdentNoReserved(schemaName) ==
    PrefixNonStart(PrefixDigit(ReplaceInvalid(schemaName)))

\* A sanitizer whose digit test lost its anchor: it always prefixes.
toTsIdentAlwaysPrefix(schemaName) ==
    SuffixReserved(PrefixNonStart(<<"_">> \o ReplaceInvalid(schemaName)))

\* A sanitizer using the character class without "$".
toTsIdentNoDollar(schemaName) ==
    SuffixReserved(PrefixNonStart(PrefixDigit(
        [i \in 1..Len(schemaName) |->
            IF IsIdentChar(schemaName[i]) /\ schemaName[i] # "$"
            THEN schemaName[i] ELSE "_"])))

toTsIdent(schemaName) ==
    SuffixReserved(PrefixNonStart(PrefixDigit(ReplaceInvalid(schemaName))))

(***************************************************************************)
(* RDF terms and the quad store                                            *)
(***************************************************************************)

\* An IRI (more generally the string value of a term) is held split into the
\* namespace it starts with and the rest; the empty string is EmptyValue.
NS == [rdf |-> "rdf", rdfs |-> "rdfs", schema |-> "schema"]

IRI == [rdfType              |-> [ns |-> NS.rdf,    local |-> <<"t","y","p","e">>],
        rdfProperty          |-> [ns |-> NS.rdf,    local |-> <<"P","r","o","p","e","r","t","y">>],
        rdfsClass            |-> [ns |-> NS.rdfs,   local |-> <<"C","l","a","s","s">>],
        rdfsSubClassOf       |-> [ns |-> NS.rdfs,   local |-> <<"s","u","b","C","l","a","s","s","O","f">>],
        schemaDomainIncludes |-> [ns |-> NS.schema, local |-> <<"d","o","m","a","i","n","I","n","c","l","u","d","e","s">>],
        schemaRangeIncludes  |-> [ns |-> NS.schema, local |-> <<"r","a","n","g","e","I","n","c","l","u","d","e","s">>]]

EmptyValue == [ns |-> "", local |-> <<>>]

\* if (iri.startsWith(NS.schema)) return iri.slice(NS.schema.length); return null
iriToLocalName(iri) == IF iri.ns = NS.schema THEN iri.local ELSE Null

isNamedNode(v) == v.termType = "NamedNode"

isLiteral(v) == v.termType = "Literal"

\* store.getQuads(null, predicate, object, null)
getQuadsByPredicateObject(st, predicate, object) ==
    SelectSeq(st, LAMBDA quad : /\ quad.predicate = predicate
                                /\ isNamedNode(quad.object)
                                /\ quad.object.value = object)

\* store.getQuads(subject, predicate, null, null)
getQuadsBySubjectPredicate(st, subject, predicate) ==
    SelectSeq(st, LAMBDA quad : /\ isNamedNode(quad.subject)
                                /\ quad.subject.value = subject
                                /\ quad.predicate = predicate)

getObjects(st, subject, predicate) ==
    LET qs   == getQuadsBySubjectPredicate(st, subject, predicate)
        vals == [i \in 1..Len(qs) |->
                    IF isNamedNode(qs[i].object) \/ isLiteral(qs[i].object)
                    THEN qs[i].object.value ELSE EmptyValue]
    IN  SelectSeq(vals, LAMBDA v : v # EmptyValue)

(***************************************************************************)
(* Maps keyed by name, in insertion order: a sequence of the values, each  *)
(* carrying its key in the field name.                                     *)
(***************************************************************************)

MapHas(m, key) == \E i \in 1..Len(m) : m[i].name = key

MapGet(m, key) == m[CHOOSE i \in 1..Len(m) : m[i].name = key]

MapKeys(m) == [i \in 1..Len(m) |-> m[i].name]

\* Map.prototype.set: a present key keeps its position.
MapSet(m, key, val) ==
    IF MapHas(m, key)
    THEN [i \in 1..Len(m) |-> IF m[i].name = key THEN val ELSE m[i]]
    ELSE Append(m, val)

(***************************************************************************)
(* buildGraph                                                              *)
(***************************************************************************)

\* Lines 98-107: the body of the loop over the quads typed rdfs:Class.
CollectClass(m, quad) ==
    IF ~isNamedNode(quad.subject) THEN m
    ELSE LET local == iriToLocalName(quad.subject.value)
         IN  IF ~Truthy(local) THEN m
             ELSE MapSet(m, local, [name       |-> local,
                                    iri        |-> quad.subject.value,
                                    parents    |-> <<>>,
                                    properties |-> {}])

\* Lines 97-108: one ClassDef per typed subject of the schema namespace.
RECURSIVE CollectClasses(_)
CollectClasses(qs) ==
    IF qs = <<>> THEN <<>>
    ELSE Eager(CollectClasses(SubSeq(qs, 1, Len(qs) - 1)),
               LAMBDA m : CollectClass(m, qs[Len(qs)]))

\* Lines 111-120: the body of the loop over the quads typed rdf:Property.
CollectProp(m, quad) ==
    IF ~isNamedNode(quad.subject) THEN m
    ELSE LET local == iriToLocalName(quad.subject.value)
         IN  IF ~Truthy(local) THEN m
             ELSE MapSet(m, local, [name    |-> local,
                                    iri     |-> quad.subject.value,
                                    domains |-> <<>>,
                                    ranges  |-> <<>>])

\* Lines 110-121: one PropDef per typed subject of the schema namespace.
RECURSIVE CollectProps(_)
CollectProps(qs) ==
    IF qs = <<>> THEN <<>>
    ELSE Eager(CollectProps(SubSeq(qs, 1, Len(qs) - 1)),
               LAMBDA m : CollectProp(m, qs[Len(qs)]))

\* The local names of a list of values, those without one dropped.
LocalNames(values) ==
    SelectSeq([i \in 1..Len(values) |-> iriToLocalName(values[i])], Truthy)

\* Lines 123-129: the parents that are declared classes, in store order.
ResolveParents(st, cm) ==
    [i \in 1..Len(cm) |->
        [cm[i] EXCEPT !.parents =
            @ \o SelectSeq(LocalNames(getObjects(st, cm[i].iri, IRI.rdfsSubClassOf)),
                           LAMBDA pName : MapHas(cm, pName))]]

\* Lines 131-144: the domains and ranges that have a local name.
ResolveDomainsAndRanges(st, pm) ==
    [i \in 1..Len(pm) |->
        [pm[i] EXCEPT
            !.domains = @ \o LocalNames(getObjects(st, pm[i].iri, IRI.schemaDomainIncludes)),
            !.ranges  = @ \o LocalNames(getObjects(st, pm[i].iri, IRI.schemaRangeIncludes))]]

\* Lines 147-150 for one property: a property attached to its first domain only.
AttachFirstDomainOnly(cm, propName, domains) ==
    IF domains = <<>> \/ ~MapHas(cm, domains[1]) THEN cm
    ELSE [i \in 1..Len(cm) |->
            IF cm[i].name = domains[1]
            THEN [cm[i] EXCEPT !.properties = @ \cup {propName}] ELSE cm[i]]

\* Lines 148-149: const cls = classes.get(d); if (cls) cls.properties.add(prop.name)
AttachToDomain(m, propName, d) ==
    IF MapHas(m, d)
    THEN [i \in 1..Len(m) |->
            IF m[i].name = d
            THEN [m[i] EXCEPT !.properties = @ \cup {propName}] ELSE m[i]]
    ELSE m

\* Lines 147-150 for one property: the loop over prop.domains.
RECURSIVE AttachProp(_, _, _)
AttachProp(cm, propName, domains) ==
    IF domains = <<>> THEN cm
    ELSE Eager(AttachProp(cm, propName, SubSeq(domains, 1, Len(domains) - 1)),
               LAMBDA m : AttachToDomain(m, propName, domains[Len(domains)]))

\* Lines 146-151.
RECURSIVE PropagateProps(_, _)
PropagateProps(cm, pm) ==
    IF pm = <<>> THEN cm
    ELSE Eager(PropagateProps(cm, SubSeq(pm, 1, Len(pm) - 1)),
               LAMBDA m : AttachProp(m, pm[Len(pm)].name, pm[Len(pm)].domains))

\* Lines 93-154; c0 and p0 are the maps after the first two loops.
buildGraph(st) ==
    Eager(CollectClasses(getQuadsByPredicateObject(st, IRI.rdfType, IRI.rdfsClass)),
      LAMBDA c0 :
    Eager(CollectProps(getQuadsByPredicateObject(st, IRI.rdfType, IRI.rdfProperty)),
      LAMBDA p0 :
    Eager(ResolveParents(st, c0),
      LAMBDA c1 :
    Eager(ResolveDomainsAndRanges(st, p0),
      LAMBDA p1 : [classes |-> PropagateProps(c1, p1), props |-> p1]))))

(***************************************************************************)
(* topoSortClasses                                                         *)
(***************************************************************************)

\* Set.prototype.add on an insertion-ordered Set.
SetAdd(set, x) == IF Includes(set, x) THEN set ELSE Append(set, x)

\* Lines 168-170: one entry p of c.parents; t = [indeg, children].
AddParentEdge(t, cname, p, cm) ==
    IF ~MapHas(cm, p) THEN t
    ELSE [indeg    |-> [t.indeg EXCEPT ![cname] = @ + 1],
          children |-> [t.children EXCEPT ![p] = SetAdd(@, cname)]]

\* Lines 167-171 for one class: its edges to declared parents.
RECURSIVE AddParentEdges(_, _, _, _)
AddParentEdges(t, cname, parents, cm) ==
    IF parents = <<>> THEN t
    ELSE Eager(AddParentEdges(t, cname, SubSeq(parents, 1, Len(parents) - 1), cm),
               LAMBDA t0 : AddParentEdge(t0, cname, parents[Len(parents)], cm))

\* Lines 166-172: over classes.values(), in the Map's insertion order.
RECURSIVE AddClassEdges(_, _, _)
AddClassEdges(t, cs, cm) ==
    IF cs = <<>> THEN t
    ELSE Eager(AddClassEdges(t, SubSeq(cs, 1, Len(cs) - 1), cm),
               LAMBDA t0 : AddParentEdges(t0, cs[Len(cs)].name, cs[Len(cs)].parents, cm))

\* Lines 157-172.
TopoTables(cm) ==
    Eager(Sort(MapKeys(cm)),
          LAMBDA ns : AddClassEdges([indeg    |-> [n \in Range(ns) |-> 0],
                                     children |-> [n \in Range(ns) |-> <<>>]], cm, cm))

\* Lines 181-182: one child ch of the class taken from the queue; t = [indeg, q].
VisitChild(t, ch) ==
    [indeg |-> [t.indeg EXCEPT ![ch] = @ - 1],
     q     |-> IF t.indeg[ch] - 1 = 0 THEN Append(t.q, ch) ELSE t.q]

\* Lines 180-183: the children of the class taken from the queue.
RECURSIVE VisitChildren(_, _)
VisitChildren(t, chs) ==
    IF chs = <<>> THEN t
    ELSE Eager(VisitChildren(t, SubSeq(chs, 1, Len(chs) - 1)),
               LAMBDA t0 : VisitChild(t0, chs[Len(chs)]))

\* Line 186 left out: the classes the queue never reached are not appended.
AppendMissingNone(o, ns) == o

\* Line 186: for (const n of names) if (!out.includes(n)) out.push(n)
RECURSIVE AppendMissing(_, _)
AppendMissing(o, ns) ==
    IF ns = <<>> THEN o
    ELSE Eager(AppendMissing(o, SubSeq(ns, 1, Len(ns) - 1)),
               LAMBDA o0 : IF Includes(o0, ns[Len(ns)]) THEN o0
                           ELSE Append(o0, ns[Len(ns)]))

(***************************************************************************)
(* rangeToTs, propToTs                                                     *)
(***************************************************************************)

Text     == <<"T","e","x","t">>
URL      == <<"U","R","L">>
Boolean  == <<"B","o","o","l","e","a","n">>
Number   == <<"N","u","m","b","e","r">>
Integer  == <<"I","n","t","e","g","e","r">>
Float    == <<"F","l","o","a","t">>
Date     == <<"D","a","t","e">>
DateTime == <<"D","a","t","e","T","i","m","e">>
Time     == <<"T","i","m","e">>

\* classIdentByName is a function from the names set so far to identifiers.
rangeToTs(rangeName, identByName) ==
    CASE rangeName \in {Text, URL}               -> "string"
      [] rangeName = Boolean                     -> "boolean"
      [] rangeName \in {Number, Integer, Float}  -> "number"
      [] rangeName \in {Date, DateTime, Time}    -> "string"
      [] OTHER ->
            LET ident == IF rangeName \in DOMAIN identByName
                         THEN identByName[rangeName] ELSE toTsIdent(rangeName)
            IN  Str(ident) \o " | string"

\* Lines 305-308, ranges being the list line 304 made.
TypeOfRanges(ranges, identByName) ==
    IF ranges = <<>> THEN "unknown"
    ELSE LET union == Join([i \in 1..Len(ranges) |->
                               rangeToTs(ranges[i], identByName)], " | ")
         IN  union \o " | Array<" \o union \o ">"

\* A type mapper that neither deduplicates nor sorts the ranges.
propToTsAsListed(prop, identByName) == TypeOfRanges(prop.ranges, identByName)

propToTs(prop, identByName) ==
    Eager(Sort(Dedup(prop.ranges)), LAMBDA ranges : TypeOfRanges(ranges, identByName))

(***************************************************************************)
(* collectAllPropsForClass                                                 *)
(***************************************************************************)

\* walk(name) up to its loop over the parents; w = [allProps, seen, stack].
\* A frame of the stack is a call of walk that got to that loop: the class
\* and the index of the parent it walks next.
WalkEnterBody(w, name, cm) ==
    IF ~MapHas(cm, name) THEN [w EXCEPT !.seen = @ \cup {name}]
    ELSE [allProps |-> w.allProps \cup MapGet(cm, name).properties,
          seen     |-> w.seen \cup {name},
          stack    |-> Append(w.stack, [name |-> name, i |-> 1])]

\* walk without "if (seen.has(name)) return".
WalkEnterNoSeen(w, name, cm) == WalkEnterBody(w, name, cm)

\* walk without its loop over the parents: inner calls do nothing.
WalkEnterOwnOnly(w, name, cm) ==
    IF w.stack # <<>> \/ name \in w.seen THEN w ELSE WalkEnterBody(w, name, cm)

WalkEnter(w, name, cm) ==
    IF name \in w.seen THEN w ELSE WalkEnterBody(w, name, cm)

(***************************************************************************)
(* generateTs                                                              *)
(***************************************************************************)

\* Lines 338-341: the Map as a function; nothing iterates over it.
BuildIdentTable(sorted) == [n \in Range(sorted) |-> toTsIdent(n)]

header ==
    "/* eslint-disable */\n" \o
    "// AUTO-GENERATED FILE. DO NOT EDIT.\n" \o
    "\n" \o
    "export type SchemaContext = \"https://schema.org\" | (string & {});\n" \o
    "export type WithContext<T> = T & { \"@context\": SchemaContext };\n" \o
    "\n" \o
    "export type JsonLdCore = {\n" \o
    "  \"@context\"?: SchemaContext;\n" \o
    "  \"@type\"?: string;\n" \o
    "  \"@id\"?: string;\n" \o
    "};\n" \o
    "\n"

\* Lines 361-389: the block of one class, before it is rendered: its name,
\* its identifier, the identifiers it extends and its property fields.
EmitBlock(schemaName, cm, pm, identByName, collected) ==
    LET cls               == MapGet(cm, schemaName)
        parentSchemaNames == SelectSeq(cls.parents, LAMBDA pn : MapHas(cm, pn))
        parentIdents      == SelectSeq([i \in 1..Len(parentSchemaNames) |->
                                           identByName[parentSchemaNames[i]]],
                                       LAMBDA id : id # <<>>)
    IN  Eager(SelectSeq(Sort(SetToSeq(collected)), LAMBDA pn : MapHas(pm, pn)),
          LAMBDA known :
            [schemaName   |-> schemaName,
             ident        |-> identByName[schemaName],
             parentIdents |-> parentIdents,
             fields       |-> [i \in 1..Len(known) |->
                                  [name   |-> known[i],
                                   tsType |-> propToTs(MapGet(pm, known[i]), identByName)]]])

\* Lines 370-392: the text of a block.
RenderBlock(b) ==
    LET extendsClause ==
            IF Len(b.parentIdents) > 0
            THEN " extends JsonLdCore, " \o
                 Join([i \in 1..Len(b.parentIdents) |-> Str(b.parentIdents[i])], ", ")
            ELSE " extends JsonLdCore"
        lines ==
            << "export interface " \o Str(b.ident) \o extendsClause \o " {",
               "  \"@type\"?: " \o JsonString(b.schemaName) \o " | (string & {});" >>
            \o [i \in 1..Len(b.fields) |->
                   "  " \o JsonString(b.fields[i].name) \o "?: " \o b.fields[i].tsType \o ";"]
            \o << "}\n" >>
    IN  Join(lines, "\n")

\* Lines 396-425: the returned text.
RenderAll(sorted, identByName, bs) ==
    LET typeNamesUnion == Join([i \in 1..Len(sorted) |-> JsonString(sorted[i])], " | ")
        mapEntries ==
            Join([i \in 1..Len(sorted) |->
                     "  " \o JsonString(sorted[i]) \o ": " \o Str(identByName[sorted[i]]) \o ";"],
                 "\n")
        nameToIdentEntries ==
            Join([i \in 1..Len(sorted) |->
                     "  " \o JsonString(sorted[i]) \o ": "
                          \o JsonString(identByName[sorted[i]]) \o ","],
                 "\n")
    IN  Join(<<header>>
             \o [i \in 1..Len(bs) |-> RenderBlock(bs[i])]
             \o << "export type SchemaTypeName = " \o typeNamesUnion \o ";\n",
                   "export type SchemaTypeMap = {\n" \o mapEntries \o "\n};\n",
                   "export const __SCHEMA_NAME_TO_TS_IDENT__ = {\n"
                       \o nameToIdentEntries \o "\n} as const;\n" >>,
             "\n")

(***************************************************************************)
(* The program: main's buildGraph(store) and generateTs(graph), with the   *)
(* loop of topoSortClasses and the calls of walk as steps.                 *)
(***************************************************************************)

\* The deepest recursion of walk the model follows.  walk enters a class at
\* most once per call of collectAllPropsForClass, so the program stays below.
MaxStack == 4

BuildGraph ==
    /\ pc = "build"
    /\ LET g == buildGraph(store)
       IN  /\ classes' = g.classes
           /\ props' = g.props
    /\ pc' = "topo"
    /\ UNCHANGED <<storeVars, topoVars, walkVars, genVars, prev, unitVars>>

\* Lines 157-175.
TopoStart ==
    /\ pc = "topo"
    /\ LET t == TopoTables(classes)
       IN  /\ names' = Sort(MapKeys(classes))
           /\ indeg' = t.indeg
           /\ children' = t.children
           /\ q' = SelectSeq(names', LAMBDA n : t.indeg[n] = 0)
    /\ out' = <<>>
    /\ pc' = "loop"
    /\ UNCHANGED <<storeVars, graphVars, walkVars, genVars, prev, unitVars>>

\* Lines 177-184: one iteration of while (q.length).
TopoLoop ==
    /\ pc = "loop"
    /\ q # <<>>
    /\ LET n == Head(q)
           t == VisitChildren([indeg |-> indeg, q |-> Tail(q)], children[n])
       IN  /\ out' = Append(out, n)
           /\ indeg' = t.indeg
           /\ q' = t.q
    /\ UNCHANGED <<storeVars, graphVars, names, children, walkVars, genVars, prev,
                   unitVars, pc>>

\* Lines 186-187 and 335: the loop is over, the leftovers are appended.
TopoReturn ==
    /\ pc = "loop"
    /\ q = <<>>
    /\ out' = AppendMissing(out, names)
    /\ sortedSchemaNames' = out'
    /\ pc' = "idents"
    /\ UNCHANGED <<storeVars, graphVars, names, indeg, children, q, walkVars,
                   classIdentByName, idx, blocks, text, prev, unitVars>>

\* Lines 338-357.
BuildIdents ==
    /\ pc = "idents"
    /\ classIdentByName' = BuildIdentTable(sortedSchemaNames)
    /\ idx' = 1
    /\ blocks' = <<>>
    /\ pc' = "emit"
    /\ UNCHANGED <<storeVars, graphVars, topoVars, walkVars, sortedSchemaNames, text,
                   prev, unitVars>>

\* Lines 360-376 and 315-328: the next class; walk(clsName) is entered.
EmitBegin ==
    /\ pc = "emit"
    /\ idx <= Len(sortedSchemaNames)
    /\ LET w == WalkEnter([allProps |-> {}, seen |-> {}, stack |-> <<>>],
                          sortedSchemaNames[idx], classes)
       IN  /\ allProps' = w.allProps
           /\ seen' = w.seen
           /\ stack' = w.stack
    /\ pc' = "walk"
    /\ UNCHANGED <<storeVars, graphVars, topoVars, genVars, prev, unitVars>>

\* Line 325: the innermost walk calls walk(parent) for its next parent, or
\* is through with its parents and returns.
WalkStep ==
    /\ pc = "walk"
    /\ stack # <<>>
    /\ Len(stack) <= MaxStack
    /\ LET top     == stack[Len(stack)]
           parents == MapGet(classes, top.name).parents
       IN  IF top.i > Len(parents)
           THEN /\ stack' = SubSeq(stack, 1, Len(stack) - 1)
                /\ UNCHANGED <<allProps, seen>>
           ELSE LET w == WalkEnter(
                            [allProps |-> allProps, seen |-> seen,
                             stack |-> [stack EXCEPT ![Len(stack)].i = @ + 1]],
                            parents[top.i], classes)
                IN  /\ allProps' = w.allProps
                    /\ seen' = w.seen
                    /\ stack' = w.stack
    /\ UNCHANGED <<storeVars, graphVars, topoVars, genVars, prev, unitVars, pc>>

\* Lines 329 and 361-393: the walk returned, the block is pushed.
EmitEnd ==
    /\ pc = "walk"
    /\ stack = <<>>
    /\ blocks' = Append(blocks, EmitBlock(sortedSchemaNames[idx], classes, props,
                                          classIdentByName, allProps))
    /\ idx' = idx + 1
    /\ pc' = "emit"
    /\ UNCHANGED <<storeVars, graphVars, topoVars, walkVars, sortedSchemaNames,
                   classIdentByName, text, prev, unitVars>>

\* Lines 395-425.
Finish ==
    /\ pc = "emit"
    /\ idx > Len(sortedSchemaNames)
    /\ text' = RenderAll(sortedSchemaNames, classIdentByName, blocks)
    /\ pc' = "done"
    /\ UNCHANGED <<storeVars, graphVars, topoVars, walkVars, sortedSchemaNames,
                   classIdentByName, idx, blocks, prev, unitVars>>

Next ==
    \/ BuildGraph
    \/ TopoStart
    \/ TopoLoop
    \/ TopoReturn
    \/ BuildIdents
    \/ EmitBegin
    \/ WalkStep
    \/ EmitEnd
    \/ Finish

(***************************************************************************)
(* Stores the program is run on                                            *)
(***************************************************************************)

MaxSubClassOf   == 3    \* rdfs:subClassOf quads of a store
MaxDomainQuads  == 2    \* schema:domainIncludes quads of a store of PropSpec
MaxRerunEdges   == 2    \* rdfs:subClassOf quads of a store of RerunSpec

SeqsUpTo(S, n) == UNION {[1..k -> S] : k \in 0..n}

\* The sequences that list each element of S once.
Orderings(S) == {f \in [1..Cardinality(S) -> S] : Range(f) = S}

RECURSIVE Flatten(_)
Flatten(ss) == IF ss = <<>> THEN <<>> ELSE ss[1] \o Flatten(Tail(ss))

\* The ways to give each of k subjects a list of objects, budget quads in all.
RECURSIVE Assignments(_, _, _)
Assignments(k, budget, Objects) ==
    IF k = 0 THEN {<<>>}
    ELSE UNION {{<<os>> \o rest : rest \in Assignments(k - 1, budget - Len(os), Objects)} :
                os \in SeqsUpTo(Objects, budget)}

SchemaNode(n) == [termType |-> "NamedNode", value |-> [ns |-> NS.schema, local |-> n]]

NamedNode(iri) == [termType |-> "NamedNode", value |-> iri]

\* Terms that buildGraph passes over.
ForeignNode == [termType |-> "NamedNode",
                value |-> [ns |-> NS.rdfs, local |-> <<"R","e","s","o","u","r","c","e">>]]
BlankNode   == [termType |-> "BlankNode", value |-> [ns |-> "_:", local |-> <<"b","0">>]]
RootNode    == [termType |-> "NamedNode", value |-> [ns |-> NS.schema, local |-> <<>>]]

\* subject rdf:type type, for each subject.
TypeQuads(subjects, type) ==
    [i \in 1..Len(subjects) |->
        [subject |-> subjects[i], predicate |-> IRI.rdfType,
         object |-> NamedNode(type),
         graph |-> Cardinality({j \in 1..(i - 1) : subjects[j] = subjects[i]})]]

\* subject predicate object, for each object.  The store holds a quad once; a
\* triple stated again is in another graph.
ObjectQuads(subject, predicate, objects) ==
    [i \in 1..Len(objects) |->
        [subject |-> subject, predicate |-> predicate, object |-> objects[i],
         graph |-> Cardinality({j \in 1..(i - 1) : objects[j] = objects[i]})]]

ClassA == <<"a","$","b">>
ClassB == <<"a","-","b">>
ClassC == <<"a","_","b">>

ClassNames == {ClassA, ClassB, ClassC}

PropX == <<"x">>
PropY == <<"y">>
PropZ == <<"z">>
PropS == <<"s">>

\* Four properties: one of each class, and one of two classes.
FixedPropQuads ==
    TypeQuads(<<SchemaNode(PropX), SchemaNode(PropY), SchemaNode(PropZ), SchemaNode(PropS)>>,
              IRI.rdfProperty)
    \o ObjectQuads(SchemaNode(PropX), IRI.schemaDomainIncludes, <<SchemaNode(ClassA)>>)
    \o ObjectQuads(SchemaNode(PropX), IRI.schemaRangeIncludes, <<SchemaNode(Text)>>)
    \o ObjectQuads(SchemaNode(PropY), IRI.schemaDomainIncludes, <<SchemaNode(ClassB)>>)
    \o ObjectQuads(SchemaNode(PropY), IRI.schemaRangeIncludes,
                   <<SchemaNode(Number), SchemaNode(ClassC)>>)
    \o ObjectQuads(SchemaNode(PropZ), IRI.schemaDomainIncludes, <<SchemaNode(ClassC)>>)
    \o ObjectQuads(SchemaNode(PropS), IRI.schemaDomainIncludes,
                   <<SchemaNode(ClassA), SchemaNode(ClassB)>>)
    \o ObjectQuads(SchemaNode(PropS), IRI.schemaRangeIncludes, <<SchemaNode(Boolean)>>)

\* The classes decl, declared in that order, the i-th with the parents
\* parentsOf[i], each parent a name.
ClassQuads(decl, parentsOf) ==
    TypeQuads([i \in 1..Len(decl) |-> SchemaNode(decl[i])], IRI.rdfsClass)
    \o Flatten([i \in 1..Len(decl) |->
                   ObjectQuads(SchemaNode(decl[i]), IRI.rdfsSubClassOf,
                               [j \in 1..Len(parentsOf[i]) |-> SchemaNode(parentsOf[i][j])])])

\* Every variable but store and pc, before the program ran.
Fresh ==
    /\ classes = <<>>
    /\ props = <<>>
    /\ names = <<>>
    /\ indeg = <<>>
    /\ children = <<>>
    /\ q = <<>>
    /\ out = <<>>
    /\ sortedSchemaNames = <<>>
    /\ classIdentByName = <<>>
    /\ idx = 0
    /\ allProps = {}
    /\ seen = {}
    /\ stack = <<>>
    /\ blocks = <<>>
    /\ text = ""

NoCall ==
    /\ arg = <<>>
    /\ ret = <<>>
    /\ ret2 = <<>>

\* Any classes of ClassNames declared in any order, subclass quads between
\* them (repeated ones, self-loops and cycles included), the four properties.
Init ==
    /\ \E decl \in UNION {Orderings(S) : S \in SUBSET ClassNames} :
         \E parentsOf \in Assignments(Len(decl), MaxSubClassOf, ClassNames) :
            store = ClassQuads(decl, parentsOf) \o FixedPropQuads
    /\ Fresh
    /\ prev = <<>>
    /\ NoCall
    /\ pc = "build"

Spec == Init /\ [][Next]_vars

(***************************************************************************)
(* main from its start, for the runs that have to end                      *)
(***************************************************************************)

MaxLiveEdges == 3   \* subclass edges of a store of LiveSpec

ClassOrder == Sort(SetToSeq(ClassNames))

\* The three classes and any subclass edges between them, MaxLiveEdges at
\* most: self-loops, 2-cycles and 3-cycles are among them.
LiveStores ==
    {ClassQuads(ClassOrder,
                [i \in 1..Len(ClassOrder) |->
                    Sort(SetToSeq({e[2] : e \in {d \in E : d[1] = ClassOrder[i]}}))])
        \o FixedPropQuads :
     E \in {D \in SUBSET (ClassNames \X ClassNames) : Cardinality(D) <= MaxLiveEdges}}

InitMain ==
    /\ store = <<>>
    /\ Fresh
    /\ prev = <<>>
    /\ NoCall
    /\ pc = "parse"

\* Lines 434-435: the store is what parseJsonLdToStore returns.
ParseJsonLdToStore ==
    /\ pc = "parse"
    /\ store' \in LiveStores
    /\ pc' = "build"
    /\ UNCHANGED <<graphVars, topoVars, walkVars, genVars, prev, unitVars>>

NextMain ==
    \/ ParseJsonLdToStore
    \/ Next

\* The program is one thread that nothing suspends: it takes its next step.
LiveSpec == InitMain /\ [][NextMain]_vars /\ WF_vars(NextMain)

(***************************************************************************)
(* Stores for the property edges: two classes declared, the third name     *)
(* left undeclared; subjects and objects that buildGraph passes over.      *)
(***************************************************************************)

PropP == <<"p">>
PropQ == <<"q">>

DomainObjects == {SchemaNode(ClassA), SchemaNode(ClassB), SchemaNode(ClassC),
                  ForeignNode, BlankNode}

InitProps ==
    /\ \E decl \in Orderings({ClassA, ClassB}) :
         \E declProps \in UNION {Orderings(S) : S \in SUBSET {PropP, PropQ}} :
           \E domainsOf \in Assignments(2, MaxDomainQuads, DomainObjects) :
              store =
                 TypeQuads(<<BlankNode, ForeignNode, RootNode>>
                           \o [i \in 1..Len(decl) |-> SchemaNode(decl[i])], IRI.rdfsClass)
                 \o ObjectQuads(SchemaNode(ClassB), IRI.rdfsSubClassOf,
                                <<ForeignNode, SchemaNode(ClassC), SchemaNode(ClassA)>>)
                 \o TypeQuads(<<BlankNode, ForeignNode, RootNode>>
                              \o [i \in 1..Len(declProps) |-> SchemaNode(declProps[i])],
                              IRI.rdfProperty)
                 \o ObjectQuads(SchemaNode(PropP), IRI.schemaDomainIncludes, domainsOf[1])
                 \o ObjectQuads(SchemaNode(PropQ), IRI.schemaDomainIncludes, domainsOf[2])
                 \o ObjectQuads(SchemaNode(PropP), IRI.schemaRangeIncludes,
                                <<BlankNode, SchemaNode(Text), ForeignNode>>)
    /\ Fresh
    /\ prev = <<>>
    /\ NoCall
    /\ pc = "build"

PropSpec == InitProps /\ [][Next]_vars

(***************************************************************************)
(* The program run again on the same quads, which the store yields in      *)
(* another order.                                                          *)
(***************************************************************************)

InitRerun ==
    /\ \E decl \in Orderings(ClassNames) :
         \E parentsOf \in Assignments(Len(decl), MaxRerunEdges, ClassNames) :
            store = ClassQuads(decl, parentsOf)
    /\ Fresh
    /\ prev = <<>>
    /\ NoCall
    /\ pc = "build"

\* The same quads with two neighbours exchanged.
Exchange(st, i) ==
    [k \in 1..Len(st) |-> IF k = i THEN st[i + 1] ELSE IF k = i + 1 THEN st[i] ELSE st[k]]

Rerun ==
    /\ pc = "done"
    /\ prev = <<>>
    /\ prev' = <<[order |-> sortedSchemaNames, text |-> text]>>
    /\ \E i \in 1..(Len(store) - 1) : store' = Exchange(store, i)
    /\ classes' = <<>>
    /\ props' = <<>>
    /\ names' = <<>>
    /\ indeg' = <<>>
    /\ children' = <<>>
    /\ q' = <<>>
    /\ out' = <<>>
    /\ sortedSchemaNames' = <<>>
    /\ classIdentByName' = <<>>
    /\ idx' = 0
    /\ allProps' = {}
    /\ seen' = {}
    /\ stack' = <<>>
    /\ blocks' = <<>>
    /\ text' = ""
    /\ pc' = "build"
    /\ UNCHANGED unitVars

NextRerun ==
    \/ Next
    \/ Rerun

RerunSpec == InitRerun /\ [][NextRerun]_vars

(***************************************************************************)
(* toTsIdent and propToTs applied on their own                             *)
(***************************************************************************)

MaxIdentLen == 3    \* length of a name given to toTsIdent
MaxRanges   == 3    \* length of prop.ranges given to propToTs

\* Letters that spell reserved words, a capital, a digit, the two other
\* identifier characters and two characters that are none.  The reserved
\* words themselves are inputs too.
IdentAlphabet == {"a", "s", "i", "n", "A", "3", "_", "$", "-", " "}

InitIdent ==
    /\ store = <<>>
    /\ Fresh
    /\ prev = <<>>
    /\ \/ \E k \in 0..MaxIdentLen : arg \in [1..k -> IdentAlphabet]
       \/ arg \in TS_RESERVED
    /\ ret = <<>>
    /\ ret2 = <<>>
    /\ pc = "toTsIdent"

CallToTsIdent ==
    /\ pc = "toTsIdent"
    /\ ret' = toTsIdent(arg)
    /\ pc' = "returned"
    /\ UNCHANGED <<storeVars, graphVars, topoVars, walkVars, genVars, prev, arg, ret2>>

ReapplyToTsIdent ==
    /\ pc = "returned"
    /\ ret2' = toTsIdent(ret)
    /\ pc' = "reapplied"
    /\ UNCHANGED <<storeVars, graphVars, topoVars, walkVars, genVars, prev, arg, ret>>

NextIdent ==
    \/ CallToTsIdent
    \/ ReapplyToTsIdent

IdentSpec == InitIdent /\ [][NextIdent]_vars

\* The primitives, a name that needs sanitizing and a reserved word.
RangeNames == {Text, URL, Boolean, Number, Integer, Float, Date, DateTime, Time,
               ClassB, <<"i","n">>}

InitType ==
    /\ store = <<>>
    /\ Fresh
    /\ prev = <<>>
    /\ \E k \in 0..MaxRanges : \E ranges \in [1..k -> RangeNames] :
         \E declared \in SUBSET {ClassB, <<"i","n">>, Text} :
            arg = [prop       |-> [name    |-> PropP,
                                   iri     |-> [ns |-> NS.schema, local |-> PropP],
                                   domains |-> <<>>,
                                   ranges  |-> ranges],
                   identByName |-> BuildIdentTable(SetToSeq(declared))]
    /\ ret = <<>>
    /\ ret2 = <<>>
    /\ pc = "propToTs"

CallPropToTs ==
    /\ pc = "propToTs"
    /\ ret' = propToTs(arg.prop, arg.identByName)
    /\ pc' = "returned"
    /\ UNCHANGED <<storeVars, graphVars, topoVars, walkVars, genVars, prev, arg, ret2>>

NextType == CallPropToTs

TypeSpec == InitType /\ [][NextType]_vars

(***************************************************************************)
(* Properties                                                              *)
(***************************************************************************)

\* topoSortClasses has returned.
Sorted == pc \in {"idents", "emit", "walk", "done"}

ClassKeys == Range(MapKeys(classes))

\* The position of a class in the returned order.
IndexOf(n) == CHOOSE i \in 1..Len(sortedSchemaNames) : sortedSchemaNames[i] = n

\* The declared parents of a declared class.
DeclaredParents(n) == {p \in Range(MapGet(classes, n).parents) : MapHas(classes, p)}

\* The least set that holds S and the declared parents of its members.
RECURSIVE ParentClosure(_)
ParentClosure(S) ==
    LET T == S \cup UNION {DeclaredParents(n) : n \in S}
    IN  IF T = S THEN S ELSE ParentClosure(T)

\* The classes reached from n by one or more parent edges.
Ancestors(n) == ParentClosure(DeclaredParents(n))

\* C1: the list topoSortClasses returns holds every key of the class mapping
\* exactly once and nothing else, whatever the subclass edges are.
C1_Permutation ==
    Sorted =>
        /\ Range(sortedSchemaNames) = ClassKeys
        /\ Len(sortedSchemaNames) = Cardinality(ClassKeys)

\* Three classes returned, one its own parent, one with a parent listed twice.
C1_Witness ==
    /\ Sorted
    /\ Len(sortedSchemaNames) = 3
    /\ \E i \in 1..Len(classes) : classes[i].name \in Range(classes[i].parents)
    /\ \E i \in 1..Len(classes) :
         /\ Len(classes[i].parents) = 2
         /\ classes[i].parents[1] = classes[i].parents[2]
         /\ classes[i].parents[1] # classes[i].name

\* C2: in the returned order every declared parent P of a class C comes
\* before C, unless P is also a descendant of C (the two are on a cycle).
C2_ParentsFirst ==
    Sorted =>
        \A c \in ClassKeys : \A p \in DeclaredParents(c) :
            c \notin ({p} \cup Ancestors(p)) => IndexOf(p) < IndexOf(c)

\* C3: generateTs terminates on every class graph, cyclic ones included.
C3_Terminates == <>(pc = "done")

\* The program ended on a graph with a 2-cycle, and on it the walk from one
\* class of the cycle had come back to that class.
C3_Witness ==
    /\ pc = "done"
    /\ \E i, j \in 1..Len(classes) :
         /\ i # j
         /\ classes[j].name \in Range(classes[i].parents)
         /\ classes[i].name \in Range(classes[j].parents)

\* An identifier of the target language, but for the reserved words.
IsIdentifier(o) ==
    /\ o # <<>>
    /\ IsIdentStart(o[1])
    /\ \A i \in 1..Len(o) : IsIdentChar(o[i])

\* C4: for every input, the empty string, names that start with a digit and
\* names of punctuation among them, toTsIdent returns a non-empty string
\* that starts with a letter, "_" or "$", has only characters of
\* [A-Za-z0-9_$] and is no member of TS_RESERVED.
C4_ValidIdent ==
    pc \in {"returned", "reapplied"} =>
        /\ IsIdentifier(ret)
        /\ ret \notin TS_RESERVED

\* toTsIdent returned for a name that starts with a digit and goes on with
\* punctuation.
C4_Witness ==
    /\ pc = "returned"
    /\ arg = <<"3", "-">>
    /\ ret = <<"_", "3", "_">>

\* The identifier table is built.
IdentsBuilt == pc \in {"emit", "walk", "done"}

\* C5 as stated: any two distinct class names have distinct identifiers in
\* classIdentByName.
C5_CollisionFree ==
    IdentsBuilt =>
        \A n, m \in DOMAIN classIdentByName :
            n # m => classIdentByName[n] # classIdentByName[m]

\* Two names of one length that differ only where both have "_" or a
\* character that is not of [A-Za-z0-9_$].
DifferInPunctuation(n, m) ==
    /\ Len(n) = Len(m)
    /\ \A i \in 1..Len(n) :
          n[i] = m[i] \/ (\A c \in {n[i], m[i]} : c = "_" \/ ~IsIdentChar(c))

\* C5, amended: a class name that is an identifier and not reserved is its
\* own identifier, so two distinct such names have distinct identifiers.
\* Nothing resolves the other collisions: two distinct class names that
\* differ only in punctuation have the same identifier.
C5_ValidNamesDistinct ==
    IdentsBuilt =>
        /\ \A n \in DOMAIN classIdentByName :
              IsIdentifier(n) /\ n \notin TS_RESERVED => classIdentByName[n] = n
        /\ \A n, m \in DOMAIN classIdentByName :
              /\ n # m
              /\ IsIdentifier(n) /\ n \notin TS_RESERVED
              /\ IsIdentifier(m) /\ m \notin TS_RESERVED
              => classIdentByName[n] # classIdentByName[m]
        /\ \A n, m \in DOMAIN classIdentByName :
              DifferInPunctuation(n, m) => classIdentByName[n] = classIdentByName[m]

\* The table holds two distinct names that are identifiers and a third that
\* differs from one of them in punctuation only.
C5_Witness ==
    /\ IdentsBuilt
    /\ DOMAIN classIdentByName = {ClassA, ClassB, ClassC}
    /\ classIdentByName[ClassA] # classIdentByName[ClassC]
    /\ classIdentByName[ClassB] = classIdentByName[ClassC]

\* The names of S, the least first.
RECURSIVE Ascending(_)
Ascending(S) ==
    IF S = {} THEN <<>>
    ELSE LET least == CHOOSE x \in S : \A y \in S \ {x} : StrLess(x, y)
         IN  <<least>> \o Ascending(S \ {least})

\* The type of one range name, by the table the specification gives.
TypeOfRange(r, identByName) ==
    IF r \in {Text, URL, Date, DateTime, Time} THEN "string"
    ELSE IF r = Boolean THEN "boolean"
    ELSE IF r \in {Number, Integer, Float} THEN "number"
    ELSE Str(IF r \in DOMAIN identByName THEN identByName[r] ELSE toTsIdent(r))
         \o " | string"

\* The type of a set of range names.
TypeOfRangeSet(S, identByName) ==
    IF S = {} THEN "unknown"
    ELSE LET asc == Ascending(S)
             U   == Join([i \in 1..Len(asc) |-> TypeOfRange(asc[i], identByName)], " | ")
         IN  U \o " | Array<" \o U \o ">"

\* C6: propToTs returns "unknown" exactly when the property has no ranges,
\* and otherwise "U | Array<U>", U being the " | "-join of the types of the
\* distinct range names in lexicographic order: the result is a function of
\* the set of range names.
C6_TypeOfRangeSet ==
    pc = "returned" =>
        /\ ret = TypeOfRangeSet(Range(arg.prop.ranges), arg.identByName)
        /\ ret = "unknown" <=> arg.prop.ranges = <<>>

\* propToTs returned for ranges that repeat a class name around a primitive
\* that sorts before it.
C6_Witness ==
    /\ pc = "returned"
    /\ arg.prop.ranges = <<ClassB, Text, ClassB>>
    /\ ret = "string | a_b | string | Array<string | a_b | string>"

\* The names of the property fields of an emitted block.
FieldNames(b) == {b.fields[i].name : i \in 1..Len(b.fields)}

\* C7: the property fields of the declaration of a class C are the union of
\* the properties of C and of every class reached from C over parents
\* entries that are declared classes, cycles included; each name is
\* emitted once, and a class without parents has its own properties only.
C7_FieldsAreInherited ==
    \A k \in 1..Len(blocks) :
        LET b == blocks[k]
            c == b.schemaName
        IN  /\ FieldNames(b) =
                   UNION {MapGet(classes, a).properties : a \in {c} \cup Ancestors(c)}
            /\ \A i, j \in 1..Len(b.fields) :
                   b.fields[i].name = b.fields[j].name => i = j
            /\ DeclaredParents(c) = {} => FieldNames(b) = MapGet(classes, c).properties

\* A diamond is emitted: a class with two parents, one the parent of the
\* other, and a property that both parents declare.
C7_Witness ==
    /\ pc = "done"
    /\ MapHas(classes, ClassC)
    /\ MapGet(classes, ClassC).parents = <<ClassA, ClassB>>
    /\ MapGet(classes, ClassB).parents = <<ClassA>>
    /\ \E k \in 1..Len(blocks) :
         /\ blocks[k].schemaName = ClassC
         /\ FieldNames(blocks[k]) = {PropS, PropX, PropY, PropZ}
         /\ Len(blocks[k].fields) = 4

\* C8: a run on the same quads, which the store yields in another order,
\* returns the same class order and the same text.
C8_OrderIndependent ==
    pc = "done" /\ prev # <<>> =>
        /\ sortedSchemaNames = prev[1].order
        /\ text = prev[1].text

\* C9: toTsIdent applied to its own result returns that result.
C9_Idempotent == pc = "reapplied" => ret2 = ret

\* toTsIdent was applied again to what it made of the reserved word "type".
C9_Witness ==
    /\ pc = "reapplied"
    /\ arg = <<"t","y","p","e">>
    /\ ret = <<"t","y","p","e","_">>
    /\ ret2 = ret

\* buildGraph has returned.
Built == pc # "build"

\* C10: after buildGraph a property name is in the properties of a class
\* exactly when it is a collected property whose domains list holds the
\* name of the class; a property without a declared domain is in no class.
C10_PropertiesByDomain ==
    Built =>
        \A i \in 1..Len(classes) :
          \A p \in {PropP, PropQ} \cup Range(MapKeys(props))
                    \cup UNION {classes[k].properties : k \in 1..Len(classes)} :
            p \in classes[i].properties
            <=> \E j \in 1..Len(props) :
                   /\ props[j].name = p
                   /\ classes[i].name \in Range(props[j].domains)

\* buildGraph returned for a property with a declared and an undeclared
\* domain and a property with no domain at all.
C10_Witness ==
    /\ Built
    /\ MapHas(props, PropP) /\ MapHas(props, PropQ)
    /\ MapGet(props, PropP).domains = <<ClassC, ClassA>>
    /\ MapGet(props, PropQ).domains = <<>>
    /\ PropP \in MapGet(classes, ClassA).properties
    /\ \A i \in 1..Len(classes) : PropQ \notin classes[i].properties

\* The identifiers that the declarations named id list in their extends
\* clauses.
Extends(id) ==
    UNION {Range(blocks[k].parentIdents) :
              k \in {j \in 1..Len(blocks) : blocks[j].ident = id}}

\* The least set that holds S and what the declarations of its members extend.
RECURSIVE ExtendsClosure(_)
ExtendsClosure(S) ==
    LET T == S \cup UNION {Extends(id) : id \in S}
    IN  IF T = S THEN S ELSE ExtendsClosure(T)

\* C11: the extends relation among the emitted declarations is acyclic: no
\* declaration extends itself, directly or through a chain of extends
\* clauses, also when the classes are on a subclass cycle.
C11_ExtendsAcyclic ==
    pc = "done" =>
        \A k \in 1..Len(blocks) :
            blocks[k].ident \notin ExtendsClosure(Extends(blocks[k].ident))

====
